---------------------------- MODULE Spec2Model ----------------------------
(***************************************************************************)
(* Run-state and cancellation model of streamlit_app.py: the message       *)
(* dispatcher loop (send_messages), the group watchdog loop                *)
(* (monitor_and_lock_group), and the start/stop handlers that spawn and    *)
(* cancel them.  Each background thread is a small state machine whose     *)
(* position is the statement of the source it is about to execute.  The    *)
(* remote browser is the environment: every call into it either returns    *)
(* one of the values the code distinguishes, or raises.                    *)
(***************************************************************************)
EXTENDS Integers, Sequences, FiniteSets, TLC

\* ------------------------------------------------------------------ bounds
\* Threads of one kind that may be spawned in one behaviour.
MaxThreads == 2
\* Cap of message_rotation_index: no iteration begins once it is reached.
MaxIndex == 3
\* Poll ticks the watchdog threads may make together; no tick begins once
\* it is reached.
MaxTicks == 2

Threads == 1..MaxThreads

\* ------------------------------------------------------------------ inputs
\* The message lists a dispatcher run may be configured with (config['messages']
\* after the newline split of line 371).
MessageLists == { <<>>, <<"m0", "m1">> }
\* chat_id and locked_group_name as get_lock_config may return them.
LockConfigs == { [chat_id |-> "", locked_group_name |-> "Y"],
                 [chat_id |-> "c1", locked_group_name |-> "Y"],
                 [chat_id |-> "c1", locked_group_name |-> ""] }
\* What the heading read of a tick may return (None is "").
HeadingNames == { "", "X", "Y" }

VARIABLES
    automation_state, \* st.session_state.automation_state (AutomationState)
    auto_threads,     \* the threads start_automation has spawned
    lock_state,       \* st.session_state.lock_state (LockState), once present
    lock_enabled,     \* users.lock_enabled of the account (sqlite)
    lock_threads,     \* the threads start_lock_system has spawned
    last,             \* <<operation, thread>> of the last step (history)
    cookie_job,       \* one activation of the cookie block (lines 338-353)
    rotation,         \* a state get_next_message is called on repeatedly
    finder,           \* one activation of find_message_input
    reverter,         \* one activation of revert_group_name
    store             \* the users and lock_config tables (sqlite)

runVars == <<automation_state, auto_threads, lock_state, lock_enabled, lock_threads, last>>
unitVars == <<cookie_job, rotation, finder, reverter, store>>
vars == <<runVars, unitVars>>
autoVars == <<automation_state, auto_threads>>
lockVars == <<lock_state, lock_enabled, lock_threads>>

\* ------------------------------------------------------------------ state
\* AutomationState.__init__
AutomationStateInit ==
    [running |-> FALSE, message_count |-> 0, logs |-> <<>>,
     message_rotation_index |-> 0]

\* LockState.__init__ ; present is 'lock_state' in st.session_state
LockStateInit == [present |-> FALSE, running |-> FALSE, logs |-> <<>>]

\* A dispatcher thread that has not been spawned.  driver is the local
\* variable of send_messages: "none" (None), "open" (a live session) or
\* "quit" (driver.quit() was invoked).  base_message is the message taken
\* for the iteration in progress.  attempts counts the send attempts
\* the thread completed and failed names the failure it handled, if any
\* (both history).
NoAutoThread ==
    [pc |-> "idle", driver |-> "none", messages_sent |-> 0,
     messages_list |-> <<>>, base_message |-> "", attempts |-> 0,
     failed |-> ""]

\* A watchdog thread that has not been spawned.
NoLockThread ==
    [pc |-> "idle", driver |-> "none", check_count |-> 0,
     chat_id |-> "", locked_group_name |-> "", current_group_name |-> "",
     failed |-> ""]

\* No activation of the functions that are followed on their own.
NoCookieJob == [pc |-> "idle"]
NoRotation == [pc |-> "idle"]
NoFinder == [pc |-> "idle"]
NoReverter == [pc |-> "idle"]
\* The account store is not followed.
NoStore == [pc |-> "idle"]

UnitInit ==
    /\ cookie_job = NoCookieJob
    /\ rotation = NoRotation
    /\ finder = NoFinder
    /\ reverter = NoReverter
    /\ store = NoStore

\* The session before any handler has run.
RunInit ==
    /\ automation_state = AutomationStateInit
    /\ auto_threads = [t \in Threads |-> NoAutoThread]
    /\ lock_state = LockStateInit
    /\ lock_enabled = FALSE
    /\ lock_threads = [t \in Threads |-> NoLockThread]
    /\ last = <<"init", 0>>

Init == RunInit /\ UnitInit

\* Mutant of log_message: the log is replaced by the new entries.
log_message_replaces(state, entries) == [state EXCEPT !.logs = entries]

\* log_message(msg, automation_state): the entries are appended to the
\* state's logs, in order.  An entry is the tuple of a tag naming the
\* message and of the values formatted into it.
log_message(state, entries) == [state EXCEPT !.logs = @ \o entries]

\* Number of threads of one kind spawned so far.
Spawned(threads) == Cardinality({t \in Threads : threads[t].pc # "idle"})

\* Threads that are spawned and have not returned.
Live(threads) == {t \in Threads : threads[t].pc \notin {"idle", "done"}}

\* A further thread may be spawned (bound of the model).
MaySpawn(threads) == Spawned(threads) < MaxThreads

\* ------------------------------------------------------- get_next_message
\* messages[index % len(messages)], 'Hello!' for an empty list.
get_next_message(messages, index) ==
    IF Len(messages) = 0 THEN "Hello!"
    ELSE messages[(index % Len(messages)) + 1]

\* Mutant of NextRotationIndex: the index is not advanced.
NextRotationIndexStuck(messages, index) == index

\* The rotation index after one call of get_next_message (line 317; the
\* early return of line 314 leaves it alone).
NextRotationIndex(messages, index) ==
    IF Len(messages) = 0 THEN index ELSE index + 1

\* The list send_messages rotates over (lines 371-373).
EffectiveList(messages) == IF Len(messages) = 0 THEN <<"Hello!">> ELSE messages

\* ------------------------------------------------------ start / stop (UI)
\* Mutant of start_automation: the test of the flag is missing.
start_automation_unguarded(messages) ==
    /\ last' = <<"start_automation", 0>>
    /\ MaySpawn(auto_threads)
    /\ automation_state' =
         [automation_state EXCEPT !.running = TRUE,
                                  !.message_count = 0,
                                  !.logs = <<>>]
    /\ auto_threads' =
         [auto_threads EXCEPT ![Spawned(auto_threads) + 1] =
            [NoAutoThread EXCEPT !.pc = "launch",
                                 !.messages_list = messages]]
    /\ UNCHANGED lockVars

\* start_automation(user_config, user_id): returns at once when the flag is
\* set; otherwise sets the flag, zeroes message_count, clears the log and
\* spawns the thread.  message_rotation_index is not assigned.
start_automation(messages) ==
    /\ last' = <<"start_automation", 0>>
    /\ IF automation_state.running
       THEN UNCHANGED autoVars
       ELSE /\ MaySpawn(auto_threads)
            /\ automation_state' =
                 [automation_state EXCEPT !.running = TRUE,
                                          !.message_count = 0,
                                          !.logs = <<>>]
            /\ auto_threads' =
                 [auto_threads EXCEPT ![Spawned(auto_threads) + 1] =
                    [NoAutoThread EXCEPT !.pc = "launch",
                                         !.messages_list = messages]]
    /\ UNCHANGED lockVars

\* Mutant of stop_automation: the watchdog's flag is cleared as well.
stop_automation_stops_both ==
    /\ last' = <<"stop_automation", 0>>
    /\ automation_state' = [automation_state EXCEPT !.running = FALSE]
    /\ lock_state' = [lock_state EXCEPT !.running = FALSE]
    /\ UNCHANGED <<auto_threads, lock_enabled, lock_threads>>

\* stop_automation(user_id): clears the flag, whatever it was.
stop_automation ==
    /\ last' = <<"stop_automation", 0>>
    /\ automation_state' = [automation_state EXCEPT !.running = FALSE]
    /\ UNCHANGED <<auto_threads, lockVars>>

\* ------------------------------------------------- send_messages (thread)
\* Mutant of AutoBrowserFails: the handler returns without clearing the flag.
AutoBrowserFailsKeepsFlag(t) ==
    /\ automation_state' =
         log_message(automation_state,
                     << <<"starting">>, <<"setup">>, <<"setup_failed">>,
                        <<"cannot_start">> >>)
    /\ auto_threads' = [auto_threads EXCEPT ![t].pc = "done",
                                            ![t].failed = "browser"]

\* Lines 326-332: setup_browser raises; the handler logs, clears the flag
\* and returns 0 with driver still None, so the finally block quits nothing.
AutoBrowserFails(t) ==
    /\ automation_state' =
         [log_message(automation_state,
                      << <<"starting">>, <<"setup">>, <<"setup_failed">>, <<"cannot_start">> >>)
           EXCEPT !.running = FALSE]
    /\ auto_threads' = [auto_threads EXCEPT ![t].pc = "done",
                                            ![t].failed = "browser"]

\* Lines 326-362: the browser is up, the pages load and find_message_input
\* returns an element.
AutoInputFound(t) ==
    /\ automation_state' =
         log_message(automation_state,
                     << <<"starting">>, <<"setup">>, <<"setup_ok">>, <<"finding">>, <<"found">> >>)
    /\ auto_threads' = [auto_threads EXCEPT ![t].pc = "loop",
                                            ![t].driver = "open"]

\* Lines 363-367: find_message_input returned None.
AutoInputNotFound(t) ==
    /\ automation_state' =
         [log_message(automation_state,
                      << <<"starting">>, <<"setup">>, <<"setup_ok">>, <<"finding">>,
                         <<"input_not_found">> >>)
           EXCEPT !.running = FALSE]
    /\ auto_threads' = [auto_threads EXCEPT ![t].pc = "finally",
                                            ![t].driver = "open",
                                            ![t].failed = "input"]

\* Mutant of AutoFatal: the outer handler logs and leaves the flag set.
AutoFatalKeepsFlag(t) ==
    /\ automation_state' =
         log_message(automation_state,
                     << <<"starting">>, <<"setup">>, <<"setup_ok">>, <<"fatal">> >>)
    /\ auto_threads' = [auto_threads EXCEPT ![t].pc = "finally",
                                            ![t].driver = "open",
                                            ![t].failed = "fatal"]

\* driver.get raised after the browser was set up: the outer handler of
\* lines 435-439.
AutoFatal(t) ==
    /\ automation_state' =
         [log_message(automation_state,
                      << <<"starting">>, <<"setup">>, <<"setup_ok">>, <<"fatal">> >>)
           EXCEPT !.running = FALSE]
    /\ auto_threads' = [auto_threads EXCEPT ![t].pc = "finally",
                                            ![t].driver = "open",
                                            ![t].failed = "fatal"]

\* Lines 324-367, up to the loop.
AutoLaunch(t) ==
    /\ auto_threads[t].pc = "launch"
    /\ last' = <<"AutoLaunch", t>>
    /\ \/ AutoBrowserFails(t)
       \/ AutoInputFound(t)
       \/ AutoInputNotFound(t)
       \/ AutoFatal(t)
    /\ UNCHANGED lockVars

\* Mutant of AutoCheckFlag: while True, the flag is not tested.
AutoCheckFlagIgnored(t) ==
    LET list == EffectiveList(auto_threads[t].messages_list)
        index == automation_state.message_rotation_index
    IN /\ index < MaxIndex
       /\ automation_state' =
            [automation_state EXCEPT !.message_rotation_index =
                                        NextRotationIndex(list, index)]
       /\ auto_threads' =
            [auto_threads EXCEPT ![t].pc = "send",
                                 ![t].base_message =
                                    get_next_message(list, index)]

\* Lines 375-376: while automation_state.running, and the message of the
\* iteration taken by get_next_message, which advances the rotation index.
\* A thread at "loop" is in the sleep that ends an iteration, or about to
\* test the flag for the first time.
AutoCheckFlag(t) ==
    LET list == EffectiveList(auto_threads[t].messages_list)
        index == automation_state.message_rotation_index
    IN IF automation_state.running
       THEN /\ index < MaxIndex
            /\ automation_state' =
                 [automation_state EXCEPT !.message_rotation_index =
                                             NextRotationIndex(list, index)]
            /\ auto_threads' =
                 [auto_threads EXCEPT ![t].pc = "send",
                                      ![t].base_message =
                                         get_next_message(list, index)]
       ELSE /\ automation_state' = automation_state
            /\ auto_threads' = [auto_threads EXCEPT ![t].pc = "exit"]

AutoCheck(t) ==
    /\ auto_threads[t].pc = "loop"
    /\ last' = <<"AutoCheck", t>>
    /\ AutoCheckFlag(t)
    /\ UNCHANGED lockVars

\* Lines 377-425, no exception: the text is injected, the send control is
\* clicked (clicked) or the Enter key events are dispatched; then the local
\* counter is incremented and copied to message_count, the entry is logged
\* and the thread sleeps.
AutoSendAttempt(t, clicked) ==
    LET n == auto_threads[t].messages_sent + 1
        entries == (IF clicked THEN << <<"send_clicked">> >> ELSE <<>>)
                   \o << <<"sent", n, auto_threads[t].base_message>> >>
    IN /\ automation_state' =
            [log_message(automation_state, entries)
              EXCEPT !.message_count = n]
       /\ auto_threads' = [auto_threads EXCEPT ![t].pc = "loop",
                                               ![t].messages_sent = n,
                                               ![t].attempts = @ + 1]

\* Mutant of AutoSendRaises: continue instead of break, the attempt is
\* retried after the error.
AutoSendRaisesRetries(t) ==
    /\ automation_state' =
         log_message(automation_state, << <<"send_error">> >>)
    /\ auto_threads' = [auto_threads EXCEPT ![t].pc = "loop",
                                            ![t].failed = "send"]

\* Lines 426-428: a call of the attempt raised; the error is logged and the
\* loop is left by break.
AutoSendRaises(t) ==
    /\ automation_state' =
         log_message(automation_state, << <<"send_error">> >>)
    /\ auto_threads' = [auto_threads EXCEPT ![t].pc = "exit",
                                            ![t].failed = "send"]

AutoSend(t) ==
    /\ auto_threads[t].pc = "send"
    /\ last' = <<"AutoSend", t>>
    /\ \/ \E clicked \in BOOLEAN : AutoSendAttempt(t, clicked)
       \/ AutoSendRaises(t)
    /\ UNCHANGED lockVars

\* Lines 430-433: after the loop.
AutoExit(t) ==
    /\ auto_threads[t].pc = "exit"
    /\ last' = <<"AutoExit", t>>
    /\ automation_state' =
         [log_message(automation_state,
                      << <<"stopped", auto_threads[t].messages_sent>> >>)
           EXCEPT !.running = FALSE]
    /\ auto_threads' = [auto_threads EXCEPT ![t].pc = "finally"]
    /\ UNCHANGED lockVars

\* Mutant of AutoQuit: the thread returns without the finally block.
AutoQuitMissing(t, quit_ok) ==
    /\ automation_state' = automation_state
    /\ auto_threads' = [auto_threads EXCEPT ![t].pc = "done"]

\* Lines 440-446: driver.quit() is invoked; "Browser closed" is logged
\* unless quit raised (quit_ok).
AutoQuit(t, quit_ok) ==
    /\ automation_state' =
         (IF quit_ok
          THEN log_message(automation_state, << <<"browser_closed">> >>)
          ELSE automation_state)
    /\ auto_threads' = [auto_threads EXCEPT ![t].pc = "done",
                                            ![t].driver = "quit"]

AutoFinally(t) ==
    /\ auto_threads[t].pc = "finally"
    /\ last' = <<"AutoFinally", t>>
    /\ \E quit_ok \in BOOLEAN : AutoQuit(t, quit_ok)
    /\ UNCHANGED lockVars

AutoStep(t) ==
    \/ AutoLaunch(t)
    \/ AutoCheck(t)
    \/ AutoSend(t)
    \/ AutoExit(t)
    \/ AutoFinally(t)

\* ------------------------------------------------ start / stop lock (UI)
\* Lines 619-624 and 762-767: the LockState is created on first use.
EnsureLockState(ls) == IF ls.present THEN ls ELSE [LockStateInit EXCEPT !.present = TRUE]

\* start_lock_system(user_id): creates the LockState if absent, returns at
\* once when the flag is set; otherwise sets the flag, clears the log, sets
\* users.lock_enabled, reads the lock configuration and spawns the thread.
start_lock_system(chat, locked) ==
    /\ last' = <<"start_lock_system", 0>>
    /\ IF lock_state.present /\ lock_state.running
       THEN UNCHANGED lockVars
       ELSE /\ MaySpawn(lock_threads)
            /\ lock_state' = [EnsureLockState(lock_state)
                                EXCEPT !.running = TRUE, !.logs = <<>>]
            /\ lock_enabled' = TRUE
            /\ lock_threads' =
                 [lock_threads EXCEPT ![Spawned(lock_threads) + 1] =
                    [NoLockThread EXCEPT !.pc = "launch",
                                         !.chat_id = chat,
                                         !.locked_group_name = locked]]
    /\ UNCHANGED autoVars

\* Mutant of stop_lock_system: the log is cleared as well.
stop_lock_system_clears_logs ==
    /\ last' = <<"stop_lock_system", 0>>
    /\ lock_state' = (IF lock_state.present
                      THEN [lock_state EXCEPT !.running = FALSE,
                                              !.logs = <<>>]
                      ELSE lock_state)
    /\ lock_enabled' = FALSE
    /\ UNCHANGED <<lock_threads, autoVars>>

\* stop_lock_system(user_id): clears the flag of a present LockState and
\* users.lock_enabled.
stop_lock_system ==
    /\ last' = <<"stop_lock_system", 0>>
    /\ lock_state' = (IF lock_state.present
                      THEN [lock_state EXCEPT !.running = FALSE]
                      ELSE lock_state)
    /\ lock_enabled' = FALSE
    /\ UNCHANGED <<lock_threads, autoVars>>

\* Lines 762-771, the "Lock System" tab of a logged-in page: the LockState
\* is created if absent and its flag is set when users.lock_enabled is set.
render_lock_tab ==
    /\ last' = <<"render_lock_tab", 0>>
    /\ lock_state' =
         (IF lock_enabled /\ ~EnsureLockState(lock_state).running
          THEN [EnsureLockState(lock_state) EXCEPT !.running = TRUE]
          ELSE EnsureLockState(lock_state))
    /\ UNCHANGED <<lock_enabled, lock_threads, autoVars>>

\* ---------------------------------------- monitor_and_lock_group (thread)
\* Lines 470-477: setup_browser raises; the flag is cleared, driver is None.
LockBrowserFails(t) ==
    /\ lock_state' =
         [log_message(lock_state,
                      << <<"lock_starting">>, <<"setup">>, <<"setup_failed">>, <<"browser_error">> >>)
           EXCEPT !.running = FALSE]
    /\ lock_threads' = [lock_threads EXCEPT ![t].pc = "clear_db",
                                            ![t].failed = "browser"]

\* A driver.get raised (line 479 or 507): the handler of lines 537-540.
LockFatal(t) ==
    /\ lock_state' =
         [log_message(lock_state,
                      << <<"lock_starting">>, <<"setup">>, <<"setup_ok">>, <<"lock_fatal">> >>)
           EXCEPT !.running = FALSE]
    /\ lock_threads' = [lock_threads EXCEPT ![t].pc = "clear_db",
                                            ![t].driver = "open",
                                            ![t].failed = "fatal"]

\* Mutant of LockNoChatId: the test of the chat id is missing and the
\* thread goes on to its loop.
LockNoChatIdIgnored(t) ==
    /\ lock_threads[t].chat_id = ""
    /\ lock_state' =
         log_message(lock_state, << <<"lock_starting">>, <<"setup">>, <<"setup_ok">> >>)
    /\ lock_threads' = [lock_threads EXCEPT ![t].pc = "loop",
                                            ![t].driver = "open"]

\* Lines 500-504: no chat id in the configuration.
LockNoChatId(t) ==
    /\ lock_threads[t].chat_id = ""
    /\ lock_state' =
         [log_message(lock_state,
                      << <<"lock_starting">>, <<"setup">>, <<"setup_ok">>, <<"group_id_required">> >>)
           EXCEPT !.running = FALSE]
    /\ lock_threads' = [lock_threads EXCEPT ![t].pc = "clear_db",
                                            ![t].driver = "open",
                                            ![t].failed = "chat_id"]

\* Lines 506-510: the conversation page is loaded.
LockPageLoaded(t) ==
    /\ lock_threads[t].chat_id # ""
    /\ lock_state' =
         log_message(lock_state, << <<"lock_starting">>, <<"setup">>, <<"setup_ok">> >>)
    /\ lock_threads' = [lock_threads EXCEPT ![t].pc = "loop",
                                            ![t].driver = "open"]

\* Lines 468-510, up to the loop.
LockLaunch(t) ==
    /\ lock_threads[t].pc = "launch"
    /\ last' = <<"LockLaunch", t>>
    /\ \/ LockBrowserFails(t)
       \/ LockFatal(t)
       \/ LockNoChatId(t)
       \/ LockPageLoaded(t)
    /\ UNCHANGED <<lock_enabled, autoVars>>

\* Ticks made or begun by the threads 1..n.
RECURSIVE TicksOf(_)
TicksOf(n) ==
    IF n = 0 THEN 0
    ELSE lock_threads[n].check_count
         + (IF lock_threads[n].pc = "tick" THEN 1 ELSE 0) + TicksOf(n - 1)

\* Line 511: while lock_state.running.
LockCheckFlag(t) ==
    IF lock_state.running
    THEN /\ TicksOf(MaxThreads) < MaxTicks
         /\ lock_threads' = [lock_threads EXCEPT ![t].pc = "tick"]
    ELSE lock_threads' = [lock_threads EXCEPT ![t].pc = "exit"]

LockCheck(t) ==
    /\ lock_threads[t].pc = "loop"
    /\ last' = <<"LockCheck", t>>
    /\ LockCheckFlag(t)
    /\ UNCHANGED <<lock_state, lock_enabled, autoVars>>

\* revert_group_name (lines 550-613): what it logs.  The info control was
\* found and the remaining steps ran, or it was not found, or a scripted
\* call raised.
RevertLogs == { << <<"reverting">>, <<"reverted">> >>,
                << <<"reverting">>, <<"no_info_button">> >>,
                << <<"reverting">>, <<"revert_error">> >> }

\* Mutant of LockTickRead: a changed name is logged and not reverted.
LockTickReadNoRevert(t, name, revert_logs) ==
    LET n == lock_threads[t].check_count + 1
        locked == lock_threads[t].locked_group_name
        drift == name # "" /\ locked # "" /\ name # locked
        same == name # "" /\ locked # "" /\ name = locked
        entries == << <<"check", n>> >>
                   \o (IF drift THEN << <<"changed", name>> >>
                       ELSE IF same THEN << <<"locked", name>> >>
                       ELSE <<>>)
    IN /\ lock_state' = log_message(lock_state, entries)
       /\ lock_threads' = [lock_threads EXCEPT ![t].pc = "loop",
                                               ![t].check_count = n,
                                               ![t].current_group_name = name]

\* Mutant of LockTickRead: only the locked name is tested, a heading that
\* could not be read is confirmed.
LockTickReadConfirmsNone(t, name, revert_logs) ==
    LET n == lock_threads[t].check_count + 1
        locked == lock_threads[t].locked_group_name
        drift == name # "" /\ locked # "" /\ name # locked
        same == locked # "" /\ ~drift
        entries == << <<"check", n>> >>
                   \o (IF drift THEN << <<"changed", name>> >> \o revert_logs
                       ELSE IF same THEN << <<"locked", name>> >>
                       ELSE <<>>)
    IN /\ lock_state' = log_message(lock_state, entries)
       /\ lock_threads' = [lock_threads EXCEPT ![t].pc = "loop",
                                               ![t].check_count = n,
                                               ![t].current_group_name = name]

\* Lines 512-532, the heading read returned name ("" is None).
LockTickRead(t, name, revert_logs) ==
    LET n == lock_threads[t].check_count + 1
        locked == lock_threads[t].locked_group_name
        drift == name # "" /\ locked # "" /\ name # locked
        same == name # "" /\ locked # "" /\ name = locked
        entries == << <<"check", n>> >>
                   \o (IF drift THEN << <<"changed", name>> >> \o revert_logs
                       ELSE IF same THEN << <<"locked", name>> >>
                       ELSE <<>>)
    IN /\ lock_state' = log_message(lock_state, entries)
       /\ lock_threads' = [lock_threads EXCEPT ![t].pc = "loop",
                                               ![t].check_count = n,
                                               ![t].current_group_name = name]

\* Lines 512-532, the heading read raised: logged, and the loop goes on.
LockTickRaises(t) ==
    LET n == lock_threads[t].check_count + 1
    IN /\ lock_state' =
            log_message(lock_state, << <<"check", n>>, <<"monitor_error">> >>)
       /\ lock_threads' = [lock_threads EXCEPT ![t].pc = "loop",
                                               ![t].check_count = n,
                                               ![t].failed = "tick"]

LockTick(t) ==
    /\ lock_threads[t].pc = "tick"
    /\ last' = <<"LockTick", t>>
    /\ \/ \E name \in HeadingNames : \E revert_logs \in RevertLogs :
             LockTickRead(t, name, revert_logs)
       \/ LockTickRaises(t)
    /\ UNCHANGED <<lock_enabled, autoVars>>

\* Lines 534-535: after the loop.
LockExit(t) ==
    /\ lock_threads[t].pc = "exit"
    /\ last' = <<"LockExit", t>>
    /\ lock_state' =
         [log_message(lock_state, << <<"lock_stopped">> >>) EXCEPT !.running = FALSE]
    /\ lock_threads' = [lock_threads EXCEPT ![t].pc = "clear_db"]
    /\ UNCHANGED <<lock_enabled, autoVars>>

\* Mutant of LockClearDb: the thread returns without writing
\* users.lock_enabled.
LockClearDbMissing(t) ==
    /\ lock_threads[t].pc = "clear_db"
    /\ last' = <<"LockClearDb", t>>
    /\ lock_enabled' = lock_enabled
    /\ lock_threads' =
         [lock_threads EXCEPT ![t].pc =
            IF lock_threads[t].driver = "open" THEN "finally" ELSE "done"]
    /\ UNCHANGED <<lock_state, autoVars>>

\* set_lock_enabled(user_id, False) of lines 476, 503, 536 and 540, then
\* the return into the finally block.
LockClearDb(t) ==
    /\ lock_threads[t].pc = "clear_db"
    /\ last' = <<"LockClearDb", t>>
    /\ lock_enabled' = FALSE
    /\ lock_threads' =
         [lock_threads EXCEPT ![t].pc =
            IF lock_threads[t].driver = "open" THEN "finally" ELSE "done"]
    /\ UNCHANGED <<lock_state, autoVars>>

\* Lines 541-547: driver.quit() is invoked; "Browser closed" is logged
\* unless quit raised (quit_ok).
LockQuit(t, quit_ok) ==
    /\ lock_state' =
         (IF quit_ok
          THEN log_message(lock_state, << <<"browser_closed">> >>)
          ELSE lock_state)
    /\ lock_threads' = [lock_threads EXCEPT ![t].pc = "done",
                                            ![t].driver = "quit"]

LockFinally(t) ==
    /\ lock_threads[t].pc = "finally"
    /\ last' = <<"LockFinally", t>>
    /\ \E quit_ok \in BOOLEAN : LockQuit(t, quit_ok)
    /\ UNCHANGED <<lock_enabled, autoVars>>

LockStep(t) ==
    \/ LockLaunch(t)
    \/ LockCheck(t)
    \/ LockTick(t)
    \/ LockExit(t)
    \/ LockClearDb(t)
    \/ LockFinally(t)

\* ------------------------------------------------------------ behaviours
\* The handlers of the dispatcher and the steps of its threads.
AutoUi ==
    \/ \E messages \in MessageLists : start_automation(messages)
    \/ stop_automation

AutoNext == AutoUi \/ \E t \in Threads : AutoStep(t)

\* The handlers of the watchdog and the steps of its threads.
LockUi ==
    \/ \E conf \in LockConfigs :
          start_lock_system(conf.chat_id, conf.locked_group_name)
    \/ stop_lock_system
    \/ render_lock_tab

LockNext == LockUi \/ \E t \in Threads : LockStep(t)

\* The two loop kinds share no variable, so a behaviour exercises one of
\* them: the dispatcher while the watchdog's state is untouched, or the
\* watchdog while no dispatcher thread was spawned.
AutoIdle == Spawned(auto_threads) = 0
LockIdle == Spawned(lock_threads) = 0 /\ ~lock_state.present /\ ~lock_enabled

Next ==
    \/ LockIdle /\ AutoNext /\ UNCHANGED unitVars
    \/ AutoIdle /\ LockNext /\ UNCHANGED unitVars

Spec == Init /\ [][Next]_vars

\* ------------------------------------------------------------- properties
\* The last entry of a log (<<>> for an empty log).
LastEntry(state) ==
    IF Len(state.logs) = 0 THEN <<>> ELSE state.logs[Len(state.logs)]

\* Threads inside the while loop: sleeping or testing the flag ("loop"), or
\* in an iteration ("send", "tick").
InLoop(threads) == {t \in Threads : threads[t].pc \in {"loop", "send", "tick"}}

\* Threads that have left the loop for good, or never entered it.
LeftLoop(threads) ==
    {t \in Threads : threads[t].pc \in {"exit", "clear_db", "finally", "done"}}

\* Threads holding a live browser session.
Sessions(threads) == {t \in Threads : threads[t].driver = "open"}

\* C1: at most one dispatcher loop and at most one watchdog loop (hence at
\* most one session per kind) is active at any time, also when a stop is
\* followed by a start before the earlier loop has seen the cleared flag.
C1_AtMostOneLoopPerKind ==
    /\ automation_state.running =>
         Cardinality(InLoop(auto_threads) \cap Sessions(auto_threads)) <= 1
    /\ lock_state.running =>
         Cardinality(InLoop(lock_threads) \cap Sessions(lock_threads)) <= 1

\* C2: a start call made while the running flag is set changes nothing: no
\* thread is spawned, no session opened, and the flag, message_count, the
\* rotation index and the log keep their values.
C2_IdempotentStart ==
    [][ /\ (automation_state.running /\ last' = <<"start_automation", 0>>)
            => UNCHANGED autoVars
        /\ (lock_state.running /\ last' = <<"start_lock_system", 0>>)
            => UNCHANGED lockVars ]_vars

\* C2 witness: a start call has just returned while a run with a sent
\* message was in progress (a start that begins a run zeroes message_count).
C2_Witness ==
    /\ last = <<"start_automation", 0>>
    /\ automation_state.running
    /\ automation_state.message_count > 0
    /\ Cardinality(InLoop(auto_threads)) = 1

\* Steps a thread at pc still needs to return once the flag is clear.
Rank(pc) ==
    CASE pc = "tick" -> 6
      [] pc = "send" -> 5
      [] pc = "loop" -> 4
      [] pc = "exit" -> 3
      [] pc = "clear_db" -> 2
      [] pc = "finally" -> 1
      [] OTHER -> 0

\* C3: cancellation is cooperative.  A thread begins an iteration only when
\* the test of the flag at the loop head finds it set; stop leaves every
\* thread where it is, so an attempt in progress runs to its end and is
\* counted; and while the flag is clear a thread in its loop can always
\* take a step, each of which brings it nearer to its return, so that it
\* terminates unless the flag is set again.
C3_CooperativeCancellation ==
    /\ [][ /\ \A t \in Threads :
                /\ (auto_threads[t].pc # "send" /\ auto_threads'[t].pc = "send")
                     => (auto_threads[t].pc = "loop" /\ automation_state.running)
                /\ (lock_threads[t].pc # "tick" /\ lock_threads'[t].pc = "tick")
                     => (lock_threads[t].pc = "loop" /\ lock_state.running)
                /\ (auto_threads[t].pc = "send" /\ auto_threads'[t].pc = "loop")
                     => /\ auto_threads'[t].messages_sent
                             = auto_threads[t].messages_sent + 1
                        /\ automation_state'.message_count
                             = auto_threads'[t].messages_sent
                /\ (~automation_state.running /\ t \in InLoop(auto_threads)
                      /\ auto_threads'[t] # auto_threads[t])
                     => Rank(auto_threads'[t].pc) < Rank(auto_threads[t].pc)
                /\ (~lock_state.running /\ t \in InLoop(lock_threads)
                      /\ lock_threads'[t] # lock_threads[t])
                     => Rank(lock_threads'[t].pc) < Rank(lock_threads[t].pc)
           /\ last' = <<"stop_automation", 0>> => UNCHANGED auto_threads
           /\ last' = <<"stop_lock_system", 0>> => UNCHANGED lock_threads ]_vars
    /\ [](\A t \in Threads :
            /\ (~automation_state.running /\ t \in Live(auto_threads)
                  /\ auto_threads[t].pc # "launch")
                 => ENABLED AutoStep(t)
            /\ (~lock_state.running /\ t \in Live(lock_threads)
                  /\ lock_threads[t].pc # "launch")
                 => ENABLED LockStep(t))

\* C3 witness: a thread that made an attempt has returned after the flag
\* was cleared by stop, and the flag is clear.
C3_Witness ==
    \E t \in Threads :
       /\ auto_threads[t].pc = "done"
       /\ auto_threads[t].messages_sent > 0
       /\ auto_threads[t].failed = ""
       /\ ~automation_state.running
       /\ Len(automation_state.logs) > 0
       /\ automation_state.message_count = auto_threads[t].messages_sent

C5_EveryFailureEndsRun ==
    \A t \in Threads :
       /\ auto_threads[t].failed # "" => t \in LeftLoop(auto_threads)
       /\ lock_threads[t].failed # "" => t \in LeftLoop(lock_threads)

\* C5 as amended: a failure of the dispatcher (browser, page load, missing
\* input, send attempt) and a failure of the watchdog outside a tick
\* (browser, page load, missing chat id) is logged and ends the run: the
\* handler clears the flag and the thread has left its loop.  A scripted
\* call that raises during a watchdog tick is logged and the thread goes
\* back to the sleep of its loop.
C5_FailureHandling ==
    \A t \in Threads :
       /\ auto_threads[t].failed # "" => t \in LeftLoop(auto_threads)
       /\ (last = <<"AutoSend", t>> /\ auto_threads[t].pc = "exit")
            => LastEntry(automation_state) = <<"send_error">>
       /\ (last = <<"AutoLaunch", t>> /\ auto_threads[t].failed # "")
            => /\ ~automation_state.running
               /\ LastEntry(automation_state) \in
                    { <<"cannot_start">>, <<"fatal">>, <<"input_not_found">> }
       /\ last = <<"AutoExit", t>> => ~automation_state.running
       /\ lock_threads[t].failed \in {"browser", "fatal", "chat_id"}
            => t \in LeftLoop(lock_threads)
       /\ (last = <<"LockLaunch", t>> /\ lock_threads[t].failed # "")
            => /\ ~lock_state.running
               /\ LastEntry(lock_state) \in
                    { <<"browser_error">>, <<"lock_fatal">>,
                      <<"group_id_required">> }
       /\ (last = <<"LockTick", t>>
             /\ LastEntry(lock_state) = <<"monitor_error">>)
            => /\ lock_threads[t].failed = "tick"
               /\ lock_threads[t].pc = "loop"

\* C5 witness: a watchdog thread whose first tick raised is in its second
\* tick.
C5_Witness ==
    \E t \in Threads :
       /\ lock_threads[t].failed = "tick"
       /\ lock_threads[t].pc = "tick"
       /\ lock_threads[t].check_count = 1
       /\ lock_state.running

\* C6 as stated: the running flag is never observable as set for a run
\* whose browser could not be launched: it is clear when the failure is
\* handled.
C6_StateStaysStopped ==
    [][ \A t \in Threads :
          /\ (auto_threads[t].failed = "" /\ auto_threads'[t].failed = "browser")
               => ~automation_state.running
          /\ (lock_threads[t].failed = "" /\ lock_threads'[t].failed = "browser")
               => ~lock_state.running ]_vars

\* C6 as amended: when the browser cannot be launched the thread holds no
\* session, loads no page, makes no iteration and no send attempt, and its
\* handler clears the running flag, which start had set.
C6_BrowserUnavailable ==
    \A t \in Threads :
       /\ auto_threads[t].failed = "browser"
            => /\ auto_threads[t].pc = "done"
               /\ auto_threads[t].driver = "none"
               /\ auto_threads[t].messages_sent = 0
               /\ auto_threads[t].attempts = 0
       /\ (last = <<"AutoLaunch", t>> /\ auto_threads[t].failed = "browser")
            => ~automation_state.running
       /\ lock_threads[t].failed = "browser"
            => /\ lock_threads[t].pc \in {"clear_db", "done"}
               /\ lock_threads[t].driver = "none"
               /\ lock_threads[t].check_count = 0
       /\ (last = <<"LockLaunch", t>> /\ lock_threads[t].failed = "browser")
            => ~lock_state.running

\* C6 witness: the handler of a browser failure has just run.
C6_Witness ==
    \E t \in Threads :
       /\ last = <<"AutoLaunch", t>>
       /\ auto_threads[t].failed = "browser"
       /\ LastEntry(automation_state) = <<"cannot_start">>

\* C7: a start call that starts a run leaves a fresh run state: empty log,
\* message_count 0 and rotation index 0, so that the first message of the
\* run is the first configured message.
C7_FreshRunState ==
    [][ (/\ last' = <<"start_automation", 0>>
         /\ ~automation_state.running
         /\ automation_state'.running)
          => /\ automation_state'.logs = <<>>
             /\ automation_state'.message_count = 0
             /\ automation_state'.message_rotation_index = 0 ]_vars

\* C8: message_count never decreases while the running flag is set.
C8_CountMonotonic ==
    [][ (automation_state.running /\ automation_state'.running)
          => automation_state'.message_count
               >= automation_state.message_count ]_vars

\* C9: at every iteration boundary of a run (its thread is in the sleep of
\* the loop or at the test of the flag) message_count is the number of send
\* attempts the run has made.
C9_CountEqualsAttempts ==
    \A t \in Threads :
       (/\ t = Spawned(auto_threads)
        /\ auto_threads[t].pc = "loop"
        /\ automation_state.running)
         => automation_state.message_count = auto_threads[t].attempts

\* C10: an exception during a send attempt halts the loop without retry:
\* the thread has left the loop and makes no further attempt, its exit
\* clears the running flag, and it returns with its session quit.
C10_SendExceptionHalts ==
    \A t \in Threads :
       auto_threads[t].failed = "send"
         => /\ auto_threads[t].pc \in {"exit", "finally", "done"}
            /\ auto_threads[t].attempts = auto_threads[t].messages_sent
            /\ auto_threads[t].pc = "done" => auto_threads[t].driver = "quit"
            /\ last = <<"AutoExit", t>> => ~automation_state.running

\* C10 witness: the thread whose attempt raised has cleared the flag and
\* returned.
C10_Witness ==
    \E t \in Threads :
       /\ auto_threads[t].failed = "send"
       /\ auto_threads[t].pc = "done"
       /\ auto_threads[t].attempts = 1
       /\ ~automation_state.running

\* ------------------------------------------------------------ log helpers
\* a is an initial part of b.
IsPrefix(a, b) == Len(a) <= Len(b) /\ SubSeq(b, 1, Len(a)) = a

\* The entries a step has appended to a log.
Appended(old, new) == SubSeq(new, Len(old) + 1, Len(new))

\* Number of entries of a log with the given tag.
TagCount(entries, tag) ==
    Cardinality({i \in DOMAIN entries : entries[i][1] = tag})

\* C11: on every tick that read a name different from the configured
\* locked name the Reverter is invoked exactly once in that tick, on a
\* later tick as well as on the first; on every tick that read the locked
\* name the Reverter is not invoked and the confirmation entry is logged.
C11_WatchdogDrift ==
    [][ \A t \in Threads :
          last' = <<"LockTick", t>> =>
            LET added == Appended(lock_state.logs, lock_state'.logs)
                name == lock_threads'[t].current_group_name
                locked == lock_threads[t].locked_group_name
                n == lock_threads'[t].check_count
                read == TagCount(added, "monitor_error") = 0
            IN /\ IsPrefix(lock_state.logs, lock_state'.logs)
               /\ (read /\ name # "" /\ locked # "" /\ name # locked)
                    => /\ TagCount(added, "reverting") = 1
                       /\ TagCount(added, "locked") = 0
                       /\ added[2] = <<"changed", name>>
               /\ (read /\ name # "" /\ locked # "" /\ name = locked)
                    => added = << <<"check", n>>, <<"locked", name>> >> ]_vars

\* C11 witness: the second tick of a watchdog has read the changed name
\* again, and each of the two ticks has invoked the Reverter.
C11_Witness ==
    \E t \in Threads :
       /\ last = <<"LockTick", t>>
       /\ lock_threads[t].check_count = 2
       /\ lock_threads[t].current_group_name = "X"
       /\ lock_threads[t].locked_group_name = "Y"
       /\ TagCount(lock_state.logs, "changed") = 2
       /\ TagCount(lock_state.logs, "reverting") = 2

\* ------------------------------------------------------- cookie injection
\* A string is the sequence of its characters.  The characters of the raw
\* cookie strings: a name or value character, the two delimiters and a
\* whitespace character.
Chars == {"a", "=", ";", " "}
\* Longest raw cookie string drawn from Chars.
MaxRaw == 4
Strings(n) == UNION {[1..k -> Chars] : k \in 0..n}
\* config['cookies'] as the configuration may hold it.
RawCookies ==
    Strings(MaxRaw) \cup {<<"a", "=", "1", ";", "b", "=", "2", "=", "3">>}

\* Mutant of find: str.rfind, the index of the last occurrence.
rfind(s, ch) ==
    IF \E i \in 1..Len(s) : s[i] = ch
    THEN (CHOOSE i \in 1..Len(s) :
            s[i] = ch /\ \A j \in (i + 1)..Len(s) : s[j] # ch) - 1
    ELSE 0 - 1

\* str.find(ch): the 0-based index of the first occurrence, -1 if none.
find(s, ch) ==
    IF \E i \in 1..Len(s) : s[i] = ch
    THEN (CHOOSE i \in 1..Len(s) :
            s[i] = ch /\ \A j \in 1..(i - 1) : s[j] # ch) - 1
    ELSE 0 - 1

\* str.strip()
RECURSIVE lstrip(_)
lstrip(s) == IF s # <<>> /\ Head(s) = " " THEN lstrip(Tail(s)) ELSE s
RECURSIVE rstrip(_)
rstrip(s) ==
    IF s # <<>> /\ s[Len(s)] = " "
    THEN rstrip(SubSeq(s, 1, Len(s) - 1)) ELSE s
strip(s) == rstrip(lstrip(s))

\* str.split(sep)
RECURSIVE split(_, _)
split(s, sep) ==
    LET i == find(s, sep)
    IN IF i < 0 THEN <<s>>
       ELSE <<SubSeq(s, 1, i)>> \o split(SubSeq(s, i + 2, Len(s)), sep)

\* A cookie block about to run on raw.  added are the (name, value) pairs
\* passed to driver.add_cookie, jar those it accepted.
NewCookieJob(raw) ==
    [pc |-> "begin", raw |-> raw, cookie_array |-> <<>>, added |-> <<>>,
     jar |-> <<>>]

\* Lines 340-341 (485-486): the block is skipped for an empty string.
CookieBegin ==
    /\ cookie_job.pc = "begin"
    /\ cookie_job' =
         IF cookie_job.raw = <<>>
         THEN [cookie_job EXCEPT !.pc = "navigate"]
         ELSE [cookie_job EXCEPT !.pc = "loop",
                                 !.cookie_array = split(cookie_job.raw, ";")]

\* Mutant of CookieAdd: an add_cookie that raises is not caught inside the
\* loop; the handler around the block swallows it and the remaining
\* segments are left.
CookieAddAborts(ok) ==
    /\ cookie_job.pc = "loop"
    /\ cookie_job.cookie_array # <<>>
    /\ LET cookie_trimmed == strip(Head(cookie_job.cookie_array))
           first_equal_index == find(cookie_trimmed, "=")
           name == strip(SubSeq(cookie_trimmed, 1, first_equal_index))
           value == strip(SubSeq(cookie_trimmed, first_equal_index + 2,
                                 Len(cookie_trimmed)))
           pair == [name |-> name, value |-> value]
       IN cookie_job' =
            IF cookie_trimmed # <<>> /\ first_equal_index > 0
            THEN IF ok
                 THEN [cookie_job EXCEPT
                         !.cookie_array = Tail(@),
                         !.added = Append(@, pair),
                         !.jar = Append(@, pair)]
                 ELSE [cookie_job EXCEPT
                         !.pc = "navigate",
                         !.added = Append(@, pair)]
            ELSE [cookie_job EXCEPT !.cookie_array = Tail(@)]

\* Mutant of CookieAdd: the test is first_equal_index >= 0, a segment that
\* begins with '=' yields a cookie.
CookieAddAnyEqual(ok) ==
    /\ cookie_job.pc = "loop"
    /\ cookie_job.cookie_array # <<>>
    /\ LET cookie_trimmed == strip(Head(cookie_job.cookie_array))
           first_equal_index == find(cookie_trimmed, "=")
           name == strip(SubSeq(cookie_trimmed, 1, first_equal_index))
           value == strip(SubSeq(cookie_trimmed, first_equal_index + 2,
                                 Len(cookie_trimmed)))
           pair == [name |-> name, value |-> value]
       IN cookie_job' =
            IF cookie_trimmed # <<>> /\ first_equal_index >= 0
            THEN [cookie_job EXCEPT
                    !.cookie_array = Tail(@),
                    !.added = Append(@, pair),
                    !.jar = IF ok THEN Append(@, pair) ELSE @]
            ELSE [cookie_job EXCEPT !.cookie_array = Tail(@)]

\* Lines 342-351 (487-496), one iteration: add_cookie returns (ok) or
\* raises, and the exception is swallowed.
CookieAdd(ok) ==
    /\ cookie_job.pc = "loop"
    /\ cookie_job.cookie_array # <<>>
    /\ LET cookie_trimmed == strip(Head(cookie_job.cookie_array))
           first_equal_index == find(cookie_trimmed, "=")
           name == strip(SubSeq(cookie_trimmed, 1, first_equal_index))
           value == strip(SubSeq(cookie_trimmed, first_equal_index + 2,
                                 Len(cookie_trimmed)))
           pair == [name |-> name, value |-> value]
       IN cookie_job' =
            IF cookie_trimmed # <<>> /\ first_equal_index > 0
            THEN [cookie_job EXCEPT
                    !.cookie_array = Tail(@),
                    !.added = Append(@, pair),
                    !.jar = IF ok THEN Append(@, pair) ELSE @]
            ELSE [cookie_job EXCEPT !.cookie_array = Tail(@)]

\* The for loop is exhausted; the navigation of lines 355-359 follows.
CookieEnd ==
    /\ cookie_job.pc = "loop"
    /\ cookie_job.cookie_array = <<>>
    /\ cookie_job' = [cookie_job EXCEPT !.pc = "navigate"]

CookieInit ==
    /\ RunInit
    /\ cookie_job \in {NewCookieJob(raw) : raw \in RawCookies}
    /\ rotation = NoRotation
    /\ finder = NoFinder
    /\ reverter = NoReverter
    /\ store = NoStore

CookieNext ==
    /\ \/ CookieBegin
       \/ \E ok \in BOOLEAN : CookieAdd(ok)
       \/ CookieEnd
    /\ UNCHANGED <<runVars, rotation, finder, reverter, store>>

CookieSpec == CookieInit /\ [][CookieNext]_vars

\* The parse the cookie block is compared with, by positions: the segments
\* between the ';' of raw, each cut down to its part between the first and
\* the last non-blank character.
Between(s, i, j) == SubSeq(s, i + 1, j - 1)
NextSemicolon(s, i) ==
    IF \E j \in (i + 1)..Len(s) : s[j] = ";"
    THEN CHOOSE j \in (i + 1)..Len(s) :
           s[j] = ";" /\ \A k \in (i + 1)..(j - 1) : s[k] # ";"
    ELSE Len(s) + 1
Trimmed(s) ==
    LET inked == {i \in 1..Len(s) : s[i] # " "}
    IN IF inked = {} THEN <<>>
       ELSE SubSeq(s, CHOOSE i \in inked : \A j \in inked : i <= j,
                      CHOOSE i \in inked : \A j \in inked : i >= j)
FirstEqual(s) ==
    IF \E i \in 1..Len(s) : s[i] = "="
    THEN CHOOSE i \in 1..Len(s) : s[i] = "=" /\ \A j \in 1..(i - 1) : s[j] # "="
    ELSE 0
\* The pairs of the segments of s after position i; a trimmed segment
\* yields a pair when it has a '=' after its first character, and trim
\* tells whether the name and the value are trimmed again.
RECURSIVE PairsFrom(_, _, _)
PairsFrom(s, i, trim) ==
    LET j == NextSemicolon(s, i)
        seg == Trimmed(Between(s, i, j))
        e == FirstEqual(seg)
        name == SubSeq(seg, 1, e - 1)
        value == SubSeq(seg, e + 1, Len(seg))
        pair == IF trim
                THEN [name |-> Trimmed(name), value |-> Trimmed(value)]
                ELSE [name |-> name, value |-> value]
        here == IF e > 1 THEN <<pair>> ELSE <<>>
    IN IF j > Len(s) THEN here ELSE here \o PairsFrom(s, j, trim)

\* C12 as stated: the pairs passed to add_cookie are, for every raw
\* string, the pairs of the reference parse: split on ';', trim each
\* segment, drop the empty ones, split each on its first '=' only.
C12_ReferenceParse ==
    cookie_job.pc = "navigate"
      => cookie_job.added = PairsFrom(cookie_job.raw, 0, FALSE)

\* C12 as amended: the pairs passed to add_cookie are those of the
\* reference parse with the name and the value each trimmed again, for the
\* segments that have a '=' after their first character.
C12_CookieParsing ==
    cookie_job.pc = "navigate"
      => cookie_job.added = PairsFrom(cookie_job.raw, 0, TRUE)

\* C12 witness: "a=1;b=2=3" has been parsed into a -> "1", b -> "2=3".
C12_Witness ==
    /\ cookie_job.pc = "navigate"
    /\ cookie_job.raw = <<"a", "=", "1", ";", "b", "=", "2", "=", "3">>
    /\ cookie_job.added = << [name |-> <<"a">>, value |-> <<"1">>],
                             [name |-> <<"b">>, value |-> <<"2", "=", "3">>] >>

\* --------------------------------------------------------------- rotation
\* The messages a list is made of, the longest list and the number of
\* successive calls followed.
Messages == {"m0", "m1", "m2"}
MaxList == 3
MaxCalls == 4
ConfiguredLists == UNION {[1..k -> Messages] : k \in 0..MaxList}

\* A fresh AutomationState (rotation index 0) and a configured list;
\* in_loop tells whether the calls are those of send_messages, which
\* replaces an empty list by ['Hello!'] (lines 371-373), or calls of
\* get_next_message on the list as configured.  yielded are the messages
\* returned so far.
NewRotation(messages, in_loop) ==
    [pc |-> "calls", messages |-> messages, in_loop |-> in_loop,
     message_rotation_index |-> AutomationStateInit.message_rotation_index,
     yielded |-> <<>>]

\* One call of get_next_message (lines 312-320, called at line 376).
RotationCall ==
    /\ rotation.pc = "calls"
    /\ Len(rotation.yielded) < MaxCalls
    /\ LET messages_list == IF rotation.in_loop
                            THEN EffectiveList(rotation.messages)
                            ELSE rotation.messages
           index == rotation.message_rotation_index
       IN rotation' =
            [rotation EXCEPT
               !.yielded = Append(@, get_next_message(messages_list, index)),
               !.message_rotation_index =
                  NextRotationIndex(messages_list, index)]

RotationInit ==
    /\ RunInit
    /\ rotation \in {NewRotation(messages, in_loop) :
                       messages \in ConfiguredLists, in_loop \in BOOLEAN}
    /\ cookie_job = NoCookieJob
    /\ finder = NoFinder
    /\ reverter = NoReverter
    /\ store = NoStore

RotationNext ==
    /\ RotationCall
    /\ UNCHANGED <<runVars, cookie_job, finder, reverter, store>>

RotationSpec == RotationInit /\ [][RotationNext]_vars

\* C13: from a fresh state and a list of n > 0 messages the k-th call
\* (k = 0, 1, ...) yields messages[k mod n] and the rotation index is the
\* number of calls made; with an empty list every call yields "Hello!".
C13_Rotation ==
    rotation.pc = "calls" =>
      LET n == Len(rotation.messages)
      IN /\ \A k \in 0..(Len(rotation.yielded) - 1) :
               rotation.yielded[k + 1] =
                 IF n = 0 THEN "Hello!" ELSE rotation.messages[(k % n) + 1]
         /\ n > 0 => rotation.message_rotation_index = Len(rotation.yielded)

\* C13 witness: four calls on [m0, m1, m2] have yielded m0, m1, m2, m0.
C13_Witness ==
    /\ rotation.pc = "calls"
    /\ rotation.messages = <<"m0", "m1", "m2">>
    /\ rotation.yielded = <<"m0", "m1", "m2", "m0">>
    /\ rotation.message_rotation_index = 4

\* ----------------------------------------------------- find_message_input
\* Lines 224-237, in priority order.
message_input_selectors ==
    << "div[contenteditable=\"true\"][role=\"textbox\"]",
       "div[contenteditable=\"true\"][data-lexical-editor=\"true\"]",
       "div[aria-label*=\"message\" i][contenteditable=\"true\"]",
       "div[aria-label*=\"Message\" i][contenteditable=\"true\"]",
       "div[contenteditable=\"true\"][spellcheck=\"true\"]",
       "[role=\"textbox\"][contenteditable=\"true\"]",
       "textarea[placeholder*=\"message\" i]",
       "div[aria-placeholder*=\"message\" i]",
       "div[data-placeholder*=\"message\" i]",
       "[contenteditable=\"true\"]",
       "textarea",
       "input[type=\"text\"]" >>

\* An element as the search sees it: is_displayed(), width and height both
\* above 0 (sized), whether the click or a scripted read of it raises,
\* the result of the editable test, and whether its placeholder or label
\* contains one of the keywords of line 255.
Elements ==
    [displayed : BOOLEAN, sized : BOOLEAN, raises : BOOLEAN,
     is_editable : BOOLEAN, keyword : BOOLEAN]
\* Most elements one selector matches.
MaxElements == 2
ElementLists == UNION {[1..k -> Elements] : k \in 0..MaxElements}

\* Mutant of accepts: every selector accepts an editable element.
accepts_any_selector(selector, element) ==
    IF element.displayed /\ element.sized
    THEN IF element.raises THEN FALSE
         ELSE IF element.is_editable
              THEN IF element.keyword THEN TRUE ELSE TRUE
              ELSE FALSE
    ELSE FALSE

\* Lines 244-260: whether the element is returned.
accepts(selector, element) ==
    IF element.displayed /\ element.sized
    THEN IF element.raises THEN FALSE
         ELSE IF element.is_editable
              THEN IF element.keyword THEN TRUE
                   ELSE selector = "[contenteditable=\"true\"]"
                          \/ selector = "textarea"
              ELSE FALSE
    ELSE FALSE

\* find_message_input about to enter its for loop.  idx is the index of
\* enumerate (0-based), tried the selectors passed to find_elements so
\* far, elements the list the current selector matched and pos the number
\* of its elements examined.
NewFinder ==
    [pc |-> "select", idx |-> 0, tried |-> <<>>, elements |-> <<>>,
     pos |-> 0, result |-> "none"]

\* Line 241: find_elements returns the matched elements in document order.
FindElements(elements) ==
    /\ finder.pc = "select"
    /\ finder.idx < Len(message_input_selectors)
    /\ finder' = [finder EXCEPT !.pc = "examine",
                                !.tried = Append(@, finder.idx + 1),
                                !.elements = elements,
                                !.pos = 0]

\* Mutant of FindElementsRaises: the selector after the failed one is
\* passed over.
FindElementsRaisesSkips ==
    /\ finder.pc = "select"
    /\ finder.idx + 1 < Len(message_input_selectors)
    /\ finder' = [finder EXCEPT !.tried = Append(@, finder.idx + 1),
                                !.idx = @ + 2,
                                !.elements = <<>>,
                                !.pos = 0]

\* Lines 263-264: find_elements raises, the next selector is tried.
FindElementsRaises ==
    /\ finder.pc = "select"
    /\ finder.idx < Len(message_input_selectors)
    /\ finder' = [finder EXCEPT !.tried = Append(@, finder.idx + 1),
                                !.idx = @ + 1,
                                !.elements = <<>>,
                                !.pos = 0]

\* Lines 242-262: the next element of the list is examined and returned,
\* or passed over.
ExamineElement ==
    /\ finder.pc = "examine"
    /\ finder.pos < Len(finder.elements)
    /\ finder' =
         IF accepts(message_input_selectors[finder.idx + 1],
                    finder.elements[finder.pos + 1])
         THEN [finder EXCEPT !.pc = "done", !.result = "element"]
         ELSE [finder EXCEPT !.pos = @ + 1]

\* The inner loop is exhausted: the next selector.
NextSelector ==
    /\ finder.pc = "examine"
    /\ finder.pos = Len(finder.elements)
    /\ finder' = [finder EXCEPT !.pc = "select", !.idx = @ + 1,
                                !.elements = <<>>, !.pos = 0]

\* Lines 266-275: the outer loop is exhausted, None is returned.
ReturnNone ==
    /\ finder.pc = "select"
    /\ finder.idx = Len(message_input_selectors)
    /\ finder' = [finder EXCEPT !.pc = "done", !.result = "NotFound"]

FinderInit ==
    /\ RunInit
    /\ finder = NewFinder
    /\ cookie_job = NoCookieJob
    /\ rotation = NoRotation
    /\ reverter = NoReverter
    /\ store = NoStore

FinderNext ==
    /\ \/ /\ finder.pc = "select"
          /\ \E elements \in ElementLists : FindElements(elements)
       \/ FindElementsRaises
       \/ ExamineElement
       \/ NextSelector
       \/ ReturnNone
    /\ UNCHANGED <<runVars, cookie_job, rotation, reverter, store>>

FinderSpec == FinderInit /\ [][FinderNext]_vars

\* The selector whose elements are under examination.
CurrentSelector == message_input_selectors[finder.idx + 1]

\* The two selectors that accept an editable element without a keyword.
FallbackSelectors == {message_input_selectors[10], message_input_selectors[11]}

\* The acceptance condition in one formula: displayed with a width and a
\* height above 0, no call on the element raised, editable, and a keyword
\* in its text or a fallback selector.
Acceptable(selector, element) ==
    /\ element.displayed /\ element.sized
    /\ ~element.raises
    /\ element.is_editable
    /\ element.keyword \/ selector \in FallbackSelectors

\* The acceptance condition as stated: visible, editable, and a keyword or
\* a fallback selector.
StatedAcceptable(selector, element) ==
    /\ element.displayed /\ element.sized
    /\ element.is_editable
    /\ element.keyword \/ selector \in FallbackSelectors

\* C14: the selectors are tried in the declared order, each once; the
\* elements of a selector are examined in document order and the search
\* moves to the next selector only when none of them is acceptable; the
\* first acceptable element ends the search, after which nothing more is
\* examined; None is returned only after all the selectors were tried.
C14_ElementSearch ==
    /\ [](finder.pc # "idle" =>
            /\ finder.tried = [k \in 1..Len(finder.tried) |-> k]
            /\ Len(finder.tried) =
                 IF finder.pc = "examine" \/ finder.result = "element"
                 THEN finder.idx + 1 ELSE finder.idx
            /\ finder.result = "NotFound"
                 => Len(finder.tried) = Len(message_input_selectors)
            /\ (finder.pc = "examine" \/ finder.result = "element")
                 => \A i \in 1..finder.pos :
                       ~Acceptable(CurrentSelector, finder.elements[i])
            /\ finder.result = "element"
                 => Acceptable(CurrentSelector,
                               finder.elements[finder.pos + 1])
            /\ finder.pc = "done" <=> finder.result # "none"
            /\ finder.pc = "done" => ~ENABLED FinderNext)
    /\ [][ finder'.idx # finder.idx =>
             /\ finder'.idx = finder.idx + 1
             /\ finder.pc = "examine" =>
                  /\ finder.pos = Len(finder.elements)
                  /\ \A i \in 1..Len(finder.elements) :
                        ~Acceptable(CurrentSelector, finder.elements[i]) ]_vars

\* C14 witness: no selector matched an acceptable element and None was
\* returned after the twelve selectors.
C14_Witness ==
    /\ finder.pc = "done"
    /\ finder.result = "NotFound"
    /\ finder.tried = <<1, 2, 3, 4, 5, 6, 7, 8, 9, 10, 11, 12>>

\* C20 as stated: an element is accepted iff it is visible, editable, and
\* has a keyword in its text or was matched by one of the two fallback
\* selectors: every element passed over fails that condition and the
\* element returned meets it.
C20_StatedAcceptance ==
    (finder.pc = "examine" \/ finder.result = "element") =>
      /\ \A i \in 1..finder.pos :
            ~StatedAcceptable(CurrentSelector, finder.elements[i])
      /\ finder.result = "element"
           => StatedAcceptable(CurrentSelector,
                               finder.elements[finder.pos + 1])

\* C20 as amended: an element is accepted iff it is displayed with a width
\* and a height above 0, the click on it and the scripted reads of it do
\* not raise, it is editable, and its text has a keyword or its selector is
\* '[contenteditable="true"]' or 'textarea'; the last selector,
\* 'input[type="text"]', accepts only with a keyword.
C20_ElementAcceptance ==
    /\ (finder.pc = "examine" \/ finder.result = "element") =>
         /\ \A i \in 1..finder.pos :
               ~Acceptable(CurrentSelector, finder.elements[i])
         /\ finder.result = "element"
              => Acceptable(CurrentSelector, finder.elements[finder.pos + 1])
    /\ (finder.pc = "examine" /\ finder.idx + 1 = 12) =>
         \A i \in 1..finder.pos :
            ~(/\ finder.elements[i].displayed /\ finder.elements[i].sized
              /\ ~finder.elements[i].raises
              /\ finder.elements[i].is_editable
              /\ finder.elements[i].keyword)

\* C20 witness: 'textarea' matched two elements; the first, visible,
\* editable and with a keyword, raised on the click and was passed over;
\* the second, without a keyword, was returned as the fallback.
C20_Witness ==
    /\ finder.result = "element"
    /\ CurrentSelector = "textarea"
    /\ finder.pos = 1
    /\ StatedAcceptable(CurrentSelector, finder.elements[1])
    /\ finder.elements[1].raises
    /\ ~finder.elements[2].keyword

\* ------------------------------------------------- handlers and the log
\* C15 as stated: a stop called with the running flag clear changes
\* neither the run state, nor the persisted lock-enabled flag, nor the
\* threads.
C15_StopIsNoOp ==
    [][ /\ (last' = <<"stop_automation", 0>> /\ ~automation_state.running)
             => UNCHANGED autoVars
        /\ (last' = <<"stop_lock_system", 0>> /\ ~lock_state.running)
             => UNCHANGED lockVars ]_vars

\* C15 as amended: a stop called with the running flag clear changes
\* neither the run state nor the threads; stop_lock_system writes false to
\* the persisted lock-enabled flag whatever it was.
C15_StopWhenStopped ==
    [][ /\ (last' = <<"stop_automation", 0>> /\ ~automation_state.running)
             => UNCHANGED autoVars
        /\ (last' = <<"stop_lock_system", 0>> /\ ~lock_state.running)
             => /\ UNCHANGED <<lock_state, lock_threads>>
                /\ ~lock_enabled' ]_vars

\* C15 witness: stop_lock_system was called while a watchdog thread that
\* had cleared the flag had not yet cleared users.lock_enabled.
C15_Witness ==
    /\ last = <<"stop_lock_system", 0>>
    /\ ~lock_state.running
    /\ ~lock_enabled
    /\ \E t \in Threads :
          lock_threads[t].pc = "clear_db" /\ lock_threads[t].failed = "browser"

\* C16: rendering the page writes neither the running flag nor the log nor
\* the counters of a run state.
C16_UiOnlyReads ==
    [][ last' = <<"render_lock_tab", 0>> =>
          /\ lock_state'.running = lock_state.running
          /\ lock_state'.logs = lock_state.logs
          /\ automation_state' = automation_state ]_vars

\* Line 797: the entries the page displays.
DisplayWindow == 50
DisplayedLogs(logs) ==
    SubSeq(logs, IF Len(logs) > DisplayWindow
                 THEN Len(logs) - DisplayWindow + 1 ELSE 1, Len(logs))

C19_RevertsOrConfirms ==
    [][ \A t \in Threads :
          last' = <<"LockTick", t>> =>
            LET added == Appended(lock_state.logs, lock_state'.logs)
                locked == lock_threads[t].locked_group_name
                read == TagCount(added, "monitor_error") = 0
            IN (read /\ locked # "")
                 => TagCount(added, "reverting")
                      + TagCount(added, "locked") = 1 ]_vars

\* C19 as amended: such a tick invokes the Reverter or logs the
\* confirmation, and not both, when the heading read returned a name; when
\* no heading could be read it logs the check and does neither.
C19_TickOutcome ==
    [][ \A t \in Threads :
          last' = <<"LockTick", t>> =>
            LET added == Appended(lock_state.logs, lock_state'.logs)
                name == lock_threads'[t].current_group_name
                locked == lock_threads[t].locked_group_name
                n == lock_threads'[t].check_count
                read == TagCount(added, "monitor_error") = 0
            IN /\ (read /\ locked # "" /\ name # "")
                    => TagCount(added, "reverting")
                         + TagCount(added, "locked") = 1
               /\ (read /\ locked # "" /\ name = "")
                    => added = << <<"check", n>> >> ]_vars

\* C19 witness: a tick with the locked name "Y" configured read no heading
\* and logged the check only.
C19_Witness ==
    \E t \in Threads :
       /\ last = <<"LockTick", t>>
       /\ lock_threads[t].locked_group_name = "Y"
       /\ lock_threads[t].current_group_name = ""
       /\ lock_threads[t].check_count = 1
       /\ lock_threads[t].failed = ""
       /\ LastEntry(lock_state) = <<"check", 1>>

\* ------------------------------------------------------ revert_group_name
\* The scripted steps of revert_group_name, in the order of the source, and
\* what a step may do: its script returned true (the control was found and
\* acted on), returned false (no visible control), or raised.
RevertSteps == <<"info", "edit", "set_value", "save", "close">>
Outcomes == {"found", "missing", "raises"}
\* The locked names a Reverter may be invoked with.
LockedNames == {"X", "Y", "Z"}

\* The step after step in RevertSteps.
StepAfter(step) ==
    RevertSteps[(CHOOSE i \in 1..Len(RevertSteps) : RevertSteps[i] = step) + 1]

\* revert_group_name about to run.  attempted are the scripts executed so
\* far with their outcomes, value_set the value written into the input.
NewReverter(locked_name) ==
    [pc |-> "begin", locked_name |-> locked_name, attempted |-> <<>>,
     value_set |-> "", logs |-> <<>>]

\* Line 552: the invocation is logged.
RevertBegin ==
    /\ reverter.pc = "begin"
    /\ reverter' = [log_message(reverter, << <<"reverting">> >>)
                      EXCEPT !.pc = "info"]

\* Lines 553-564 and 609-612: the info control is clicked; when none is
\* visible the else branch logs it and the function returns; when the
\* script raises the handler logs it.
RevertInfo(outcome) ==
    /\ reverter.pc = "info"
    /\ LET done == [reverter EXCEPT
                      !.attempted = Append(@, [step |-> "info",
                                               outcome |-> outcome])]
       IN reverter' =
            CASE outcome = "found" -> [done EXCEPT !.pc = "edit"]
              [] outcome = "missing" ->
                   [log_message(done, << <<"no_info_button">> >>)
                      EXCEPT !.pc = "done"]
              [] outcome = "raises" ->
                   [log_message(done, << <<"revert_error">> >>)
                      EXCEPT !.pc = "done"]

\* Mutant of RevertScript: a step that finds no control ends the
\* remediation.
RevertScriptAborts(outcome) ==
    /\ reverter.pc \in {"edit", "set_value", "save", "close"}
    /\ LET step == reverter.pc
           done == [reverter EXCEPT
                      !.attempted = Append(@, [step |-> step,
                                               outcome |-> outcome]),
                      !.value_set = IF step = "set_value" /\ outcome = "found"
                                    THEN reverter.locked_name ELSE @]
       IN reverter' =
            CASE outcome = "raises" ->
                   [log_message(done, << <<"revert_error">> >>)
                      EXCEPT !.pc = "done"]
              [] outcome = "missing" -> [done EXCEPT !.pc = "done"]
              [] outcome = "found" /\ step = "close" ->
                   [log_message(done, << <<"reverted">> >>)
                      EXCEPT !.pc = "done"]
              [] OTHER -> [done EXCEPT !.pc = StepAfter(step)]

\* Lines 566-608: the edit, input, save and close scripts; the value a
\* script returns is not tested, and after the last one the revert is
\* logged.  Lines 611-612: a script that raises ends the function.
RevertScript(outcome) ==
    /\ reverter.pc \in {"edit", "set_value", "save", "close"}
    /\ LET step == reverter.pc
           done == [reverter EXCEPT
                      !.attempted = Append(@, [step |-> step,
                                               outcome |-> outcome]),
                      !.value_set = IF step = "set_value" /\ outcome = "found"
                                    THEN reverter.locked_name ELSE @]
       IN reverter' =
            CASE outcome = "raises" ->
                   [log_message(done, << <<"revert_error">> >>)
                      EXCEPT !.pc = "done"]
              [] outcome # "raises" /\ step = "close" ->
                   [log_message(done, << <<"reverted">> >>)
                      EXCEPT !.pc = "done"]
              [] OTHER -> [done EXCEPT !.pc = StepAfter(step)]

ReverterInit ==
    /\ RunInit
    /\ reverter \in {NewReverter(locked_name) : locked_name \in LockedNames}
    /\ cookie_job = NoCookieJob
    /\ rotation = NoRotation
    /\ finder = NoFinder
    /\ store = NoStore

ReverterNext ==
    /\ \/ RevertBegin
       \/ \E outcome \in Outcomes : RevertInfo(outcome)
       \/ \E outcome \in Outcomes : RevertScript(outcome)
    /\ UNCHANGED <<runVars, cookie_job, rotation, finder, store>>

ReverterSpec == ReverterInit /\ [][ReverterNext]_vars

\* The steps attempted, and whether one of them raised.
AttemptedSteps == [i \in 1..Len(reverter.attempted) |-> reverter.attempted[i].step]
Raised == \E i \in 1..Len(reverter.attempted) : reverter.attempted[i].outcome = "raises"

\* C18 as stated: a step that finds no control does not abort the
\* remediation: unless a script raised, a finished invocation has
\* attempted the five steps, in the order info, edit, set value, save,
\* close.
C18_StepsIndependent ==
    (reverter.pc = "done" /\ ~Raised) => AttemptedSteps = RevertSteps

\* C18 as amended: the steps are attempted in the fixed order; when the
\* info control is found, the edit, input, save and close steps are all
\* attempted whether or not each finds its control, and the revert is
\* logged; when the info control is not found no later step is attempted
\* and that is logged; a script that raises ends the invocation with the
\* error logged.
C18_ReverterSteps ==
    /\ reverter.pc # "idle" =>
         /\ IsPrefix(AttemptedSteps, RevertSteps)
         /\ \A i \in 1..(Len(reverter.attempted) - 1) :
               /\ reverter.attempted[i].outcome # "raises"
               /\ i = 1 => reverter.attempted[i].outcome = "found"
    /\ reverter.pc = "done" =>
         /\ reverter.logs \in RevertLogs
         /\ LET final == reverter.attempted[Len(reverter.attempted)]
            IN CASE final.outcome = "raises" ->
                      LastEntry(reverter) = <<"revert_error">>
                 [] final.outcome # "raises" /\ final.step = "info" ->
                      /\ final.outcome = "missing"
                      /\ LastEntry(reverter) = <<"no_info_button">>
                 [] OTHER ->
                      /\ AttemptedSteps = RevertSteps
                      /\ LastEntry(reverter) = <<"reverted">>
         /\ reverter.value_set \in {"", reverter.locked_name}

\* C18 witness: the info control was found, the edit and save controls
\* were not, and the five steps were attempted all the same.
C18_Witness ==
    /\ reverter.pc = "done"
    /\ AttemptedSteps = RevertSteps
    /\ reverter.attempted[1].outcome = "found"
    /\ reverter.attempted[2].outcome = "missing"
    /\ reverter.attempted[4].outcome = "missing"
    /\ reverter.value_set = reverter.locked_name
    /\ LastEntry(reverter) = <<"reverted">>

\* ------------------------------------------------- the missing message input
\* C21: a run whose element search returned None makes no send attempt,
\* message_count stays 0, the handler clears the running flag, the session
\* is quit before the thread returns, and the thread never re-enters the
\* loop: only a start call spawns a thread again.
C21_InputNotFoundFatal ==
    \A t \in Threads :
       auto_threads[t].failed = "input"
         => /\ auto_threads[t].pc \in {"finally", "done"}
            /\ auto_threads[t].attempts = 0
            /\ auto_threads[t].messages_sent = 0
            /\ auto_threads[t].pc = "done" => auto_threads[t].driver = "quit"
            /\ last = <<"AutoLaunch", t>>
                 => /\ ~automation_state.running
                    /\ automation_state.message_count = 0

\* ------------------------------------------------ cookie injection, errors
\* a is b with some of its elements left out, their order kept.
RECURSIVE IsSubSeq(_, _)
IsSubSeq(a, b) ==
    IF a = <<>> THEN TRUE
    ELSE IF b = <<>> THEN FALSE
    ELSE IF Head(a) = Head(b) THEN IsSubSeq(Tail(a), Tail(b))
    ELSE IsSubSeq(a, Tail(b))

\* C22: cookie injection is best effort cookie by cookie: whichever
\* add_cookie calls raise, every parsed pair is passed to add_cookie, the
\* pairs the session holds are those whose call returned, the block is never
\* stuck or left early, and it ends in the navigation to the conversation.
C22_CookieBestEffort ==
    /\ cookie_job.pc # "idle" => IsSubSeq(cookie_job.jar, cookie_job.added)
    /\ cookie_job.pc \in {"begin", "loop"} => ENABLED CookieNext
    /\ cookie_job.pc = "loop" =>
         \E k \in 0..Len(PairsFrom(cookie_job.raw, 0, TRUE)) :
            cookie_job.added = SubSeq(PairsFrom(cookie_job.raw, 0, TRUE), 1, k)
    /\ cookie_job.pc = "navigate" =>
         /\ cookie_job.cookie_array = <<>>
         /\ Len(cookie_job.added) = Len(PairsFrom(cookie_job.raw, 0, TRUE))
         /\ \A i \in 1..Len(cookie_job.added) :
               cookie_job.added[i] = PairsFrom(cookie_job.raw, 0, TRUE)[i]

\* C22 witness: of the two cookies of "a=1;b=2=3" the first add_cookie
\* raised and the second was added all the same; the navigation follows.
C22_Witness ==
    /\ cookie_job.pc = "navigate"
    /\ Len(cookie_job.added) = 2
    /\ cookie_job.jar = << [name |-> <<"b">>, value |-> <<"2", "=", "3">>] >>

\* --------------------------------------------------- the two kinds together
\* Threads of each kind spawned in a behaviour in which both kinds run.
MaxBoth == 1

\* The handlers and the thread steps of both kinds, interleaved: a session
\* of the page with a dispatcher run and a watchdog run side by side.
BothNext ==
    \/ AutoNext /\ Spawned(auto_threads') <= MaxBoth /\ UNCHANGED unitVars
    \/ LockNext /\ Spawned(lock_threads') <= MaxBoth /\ UNCHANGED unitVars

BothSpec == Init /\ [][BothNext]_vars

\* The operations of each kind, as recorded in last.
AutoOps == {"start_automation", "stop_automation", "AutoLaunch", "AutoCheck",
            "AutoSend", "AutoExit", "AutoFinally"}
LockOps == {"start_lock_system", "stop_lock_system", "render_lock_tab",
            "LockLaunch", "LockCheck", "LockTick", "LockExit", "LockClearDb",
            "LockFinally"}

\* C23: the two loop kinds are independent.  A handler or thread step of
\* the dispatcher (start, stop, every failure included) leaves the
\* LockState, users.lock_enabled and the watchdog threads with their
\* sessions as they are, and a handler or thread step of the watchdog leaves
\* the AutomationState and the dispatcher threads as they are; a session
\* changes only in a step of the thread that holds it.
C23_KindsIndependent ==
    [][ /\ last'[1] \in AutoOps => UNCHANGED lockVars
        /\ last'[1] \in LockOps => UNCHANGED autoVars
        /\ \A t \in Threads :
              /\ auto_threads'[t].driver # auto_threads[t].driver
                   => last' \in {<<"AutoLaunch", t>>, <<"AutoFinally", t>>}
              /\ lock_threads'[t].driver # lock_threads[t].driver
                   => last' \in {<<"LockLaunch", t>>, <<"LockFinally", t>>} ]_vars

\* C23 witness: the dispatcher was stopped after a send while a watchdog
\* thread, session open, is in a tick with its flag still set.
C23_Witness ==
    /\ last = <<"stop_automation", 0>>
    /\ ~automation_state.running
    /\ automation_state.message_count > 0
    /\ lock_state.running
    /\ lock_enabled
    /\ \E t \in Threads :
          lock_threads[t].pc = "tick" /\ lock_threads[t].driver = "open"
    /\ \E t \in Threads :
          auto_threads[t].pc = "loop" /\ auto_threads[t].driver = "open"

\* ---------------------------------------------------------- account store
\* The account names and passwords the forms may submit, and the values of
\* the lock configuration form.  A nickname mapping is the set of its
\* (member id, nickname) pairs; None is Python's None where a caller may
\* pass it.
Usernames == {"u1", "u2"}
Passwords == {"p1", "p2"}
None == "None"
ChatIds == {"", "c1"}
GroupNames == {"", "Y"}
NicknameMaps == { {}, {<<"m1", "n1">>} }
CookieInputs == {None, "k=v"}

\* json.dumps / json.loads of a nickname mapping: the text is kept as the
\* document whose content is the mapping.
json_dumps(obj) == [json |-> obj]
json_loads(text) == text.json

\* A row that is not in its table.
NoRow == [present |-> FALSE]

\* Lines 49-50: the tables as _init_db creates them.
NewStore ==
    [pc |-> "ready",
     users |-> [u \in Usernames |-> NoRow],
     lock_config |-> [u \in Usernames |-> NoRow],
     returned |-> [op |-> "none"]]

\* x or y, for the strings and None.
Or(x, y) == IF x = None \/ x = "" THEN y ELSE x

\* get_lock_enabled(username): bool(row[0]), False without a row.
get_lock_enabled(tables, username) ==
    IF tables.users[username].present
    THEN tables.users[username].lock_enabled # 0
    ELSE FALSE

\* The defaults get_lock_config returns without a row (line 103).
DefaultLockConfig ==
    [chat_id |-> "", locked_group_name |-> "", locked_nicknames |-> {},
     cookies |-> ""]

\* get_lock_config(username)
get_lock_config(tables, username) ==
    LET row == tables.lock_config[username]
    IN IF ~row.present THEN DefaultLockConfig
       ELSE [chat_id |-> Or(row.chat_id, ""),
             locked_group_name |-> Or(row.locked_group_name, ""),
             locked_nicknames |-> json_loads(row.locked_nicknames),
             cookies |-> Or(row.cookies, "")]

\* Mutant of create_user: the test for an existing name is missing and the
\* row is replaced.
create_user_replaces(username, password) ==
    store' =
      [store EXCEPT
         !.users[username] =
            [present |-> TRUE, password |-> password, lock_enabled |-> 0],
         !.lock_config[username] =
            [present |-> TRUE, chat_id |-> "", locked_group_name |-> "",
             locked_nicknames |-> json_dumps({}), cookies |-> ""],
         !.returned =
            [op |-> "create_user", username |-> username, ok |-> TRUE,
             message |-> "Account created successfully"]]

\* create_user(username, password): refused when the name has a row;
\* otherwise the users row is inserted with lock_enabled 0 and the
\* lock_config row with the empty defaults.
create_user(username, password) ==
    store' =
      IF store.users[username].present
      THEN [store EXCEPT
              !.returned =
                 [op |-> "create_user", username |-> username, ok |-> FALSE,
                  message |-> "Username already exists"]]
      ELSE [store EXCEPT
              !.users[username] =
                 [present |-> TRUE, password |-> password, lock_enabled |-> 0],
              !.lock_config[username] =
                 [present |-> TRUE, chat_id |-> "", locked_group_name |-> "",
                  locked_nicknames |-> json_dumps({}), cookies |-> ""],
              !.returned =
                 [op |-> "create_user", username |-> username, ok |-> TRUE,
                  message |-> "Account created successfully"]]

\* verify_user(username, password): the name, or None.
verify_user(username, password) ==
    store' =
      [store EXCEPT
         !.returned =
            [op |-> "verify_user",
             user_id |-> IF /\ store.users[username].present
                            /\ store.users[username].password = password
                         THEN username ELSE None]]

\* set_lock_enabled(username, value): an UPDATE, which changes nothing
\* without a row.
set_lock_enabled(username, value) ==
    store' =
      [store EXCEPT
         !.users[username] =
            IF @.present THEN [@ EXCEPT !.lock_enabled = IF value THEN 1 ELSE 0]
            ELSE @,
         !.returned = [op |-> "set_lock_enabled"]]

\* update_lock_config(username, ...): called for the account that is logged
\* in (lines 734-757); the row is replaced.
update_lock_config(username, chat_id, locked_group_name, nicknames, cookies) ==
    /\ store.users[username].present
    /\ store' =
         [store EXCEPT
            !.lock_config[username] =
               [present |-> TRUE, chat_id |-> chat_id,
                locked_group_name |-> locked_group_name,
                locked_nicknames |-> json_dumps(nicknames),
                cookies |-> Or(cookies, "")],
            !.returned = [op |-> "update_lock_config"]]

StoreInit ==
    /\ RunInit
    /\ store = NewStore
    /\ cookie_job = NoCookieJob
    /\ rotation = NoRotation
    /\ finder = NoFinder
    /\ reverter = NoReverter

StoreNext ==
    /\ store.pc = "ready"
    /\ \/ \E u \in Usernames, p \in Passwords : create_user(u, p)
       \/ \E u \in Usernames, p \in Passwords : verify_user(u, p)
       \/ \E u \in Usernames, v \in BOOLEAN : set_lock_enabled(u, v)
       \/ \E u \in Usernames, c \in ChatIds, g \in GroupNames,
             n \in NicknameMaps, k \in CookieInputs :
             update_lock_config(u, c, g, n, k)
    /\ UNCHANGED <<runVars, cookie_job, rotation, finder, reverter>>

StoreSpec == StoreInit /\ [][StoreNext]_vars

\* C24: create_user on a name that has an account returns the duplicate
\* outcome and leaves the users and lock_config tables as they are;
\* create_user on a new name returns success, after which get_lock_config
\* returns the empty defaults and get_lock_enabled false for that name, the
\* rows of the other accounts being untouched.
C24_AccountStore ==
    [][ store'.returned.op = "create_user" =>
          LET u == store'.returned.username
          IN IF store.users[u].present
             THEN /\ ~store'.returned.ok
                  /\ store'.returned.message = "Username already exists"
                  /\ store'.users = store.users
                  /\ store'.lock_config = store.lock_config
             ELSE /\ store'.returned.ok
                  /\ store'.users[u].present
                  /\ get_lock_config(store', u) = DefaultLockConfig
                  /\ ~get_lock_enabled(store', u)
                  /\ \A v \in Usernames \ {u} :
                        /\ store'.users[v] = store.users[v]
                        /\ store'.lock_config[v] = store.lock_config[v] ]_vars

\* C24 witness: create_user was refused for u1, whose account has the lock
\* enabled and a configured chat id and nicknames.
C24_Witness ==
    /\ store.pc = "ready"
    /\ store.returned.op = "create_user"
    /\ store.returned.username = "u1"
    /\ ~store.returned.ok
    /\ get_lock_enabled(store, "u1")
    /\ get_lock_config(store, "u1").chat_id = "c1"
    /\ get_lock_config(store, "u1").locked_nicknames = {<<"m1", "n1">>}

\* ------------------------------------------------------ flags and threads
\* C25: whenever a running flag is set, the thread spawned for the current
\* run (the last one spawned of that kind) has not returned: no state,
\* rendering of the page included, has a flag set with no live loop.
C25_FlagImpliesLiveLoop ==
    /\ automation_state.running => Spawned(auto_threads) \in Live(auto_threads)
    /\ lock_state.running => Spawned(lock_threads) \in Live(lock_threads)

\* C26: a thread that left its loop on finding the flag clear clears, in its
\* exit, the flag of its own run only: when a start has begun a new run in
\* the meantime (the thread is no longer the last one spawned), its exit
\* leaves the running flag, and for the watchdog users.lock_enabled, of the
\* new run as they are.
C26_ExitOwnRunOnly ==
    [][ \A t \in Threads :
          /\ (/\ last' = <<"AutoExit", t>>
              /\ auto_threads[t].failed = ""
              /\ t # Spawned(auto_threads))
               => automation_state'.running = automation_state.running
          /\ (last' = <<"LockExit", t>> /\ t # Spawned(lock_threads))
               => lock_state'.running = lock_state.running
          /\ (/\ last' = <<"LockClearDb", t>>
              /\ lock_threads[t].failed \in {"", "tick"}
              /\ t # Spawned(lock_threads))
               => lock_enabled' = lock_enabled ]_vars

\* C27: the log of a run holds only the entries of that run's thread: once
\* a start has cleared the log for a new run, a step of the thread of an
\* earlier run (no longer the last one spawned) appends nothing to the log
\* and does not assign message_count.
C27_LogOfOwnRun ==
    [][ \A t \in Threads :
          /\ (/\ last'[2] = t
              /\ last'[1] \in AutoOps
              /\ t # Spawned(auto_threads))
               => /\ automation_state'.logs = automation_state.logs
                  /\ automation_state'.message_count
                       = automation_state.message_count
          /\ (/\ last'[2] = t
              /\ last'[1] \in LockOps
              /\ t # Spawned(lock_threads))
               => lock_state'.logs = lock_state.logs ]_vars

\* ------------------------------------------------- the persisted lock flag
\* Lines 659-660 and 692-693: the login reads users.lock_enabled and goes on
\* to start the watchdog only when it is set.
should_auto_start == lock_enabled

\* C28: once the thread of the latest watchdog run has executed its exit,
\* whatever ended the run (the cleared flag observed, the browser not
\* launched, no chat id, a fatal exception), users.lock_enabled is false,
\* so the auto-start test of a later login fails.
C28_LockDisabledAfterRun ==
    \A t \in Threads :
       (/\ t = Spawned(lock_threads)
        /\ lock_threads[t].pc \in {"finally", "done"})
         => /\ ~lock_enabled
            /\ ~should_auto_start
            /\ lock_threads[t].failed \in {"", "tick", "browser", "fatal", "chat_id"}
            /\ lock_threads[t].failed = "browser" <=> lock_threads[t].driver = "none"

\* C28 witness: the second watchdog run was ended by a fatal exception, its
\* thread has returned, and users.lock_enabled is false.
C28_Witness ==
    /\ Spawned(lock_threads) = 2
    /\ lock_threads[2].pc = "done"
    /\ lock_threads[2].failed = "fatal"
    /\ lock_threads[1].pc = "done"
    /\ lock_threads[1].failed = ""
    /\ lock_threads[1].check_count > 0
    /\ ~lock_enabled

\* ------------------------------------------------------- the empty chat id
\* C29: a watchdog thread started with an empty chat id never enters its
\* loop: it makes no tick and invokes no Reverter.  When its launch reaches
\* the test of the chat id, the session being open, it logs that the group
\* id is required and clears the running flag; it then clears
\* users.lock_enabled and quits the session before it returns.
C29_EmptyChatId ==
    \A t \in Threads :
       (lock_threads[t].pc # "idle" /\ lock_threads[t].chat_id = "")
         => /\ lock_threads[t].pc \in {"launch", "clear_db", "finally", "done"}
            /\ lock_threads[t].check_count = 0
            /\ lock_threads[t].current_group_name = ""
            /\ lock_threads[t].pc # "launch"
                 => lock_threads[t].failed \in {"browser", "fatal", "chat_id"}
            /\ (last = <<"LockLaunch", t>> /\ lock_threads[t].failed = "chat_id")
                 => /\ LastEntry(lock_state) = <<"group_id_required">>
                    /\ ~lock_state.running
                    /\ lock_threads[t].driver = "open"
                    /\ lock_threads[t].pc = "clear_db"
            /\ last = <<"LockClearDb", t>> => ~lock_enabled
            /\ (lock_threads[t].pc = "done" /\ lock_threads[t].failed = "chat_id")
                 => lock_threads[t].driver = "quit"

\* C29 witness: a watchdog started without a chat id has logged that the
\* group id is required, cleared both flags, quit its session and returned.
C29_Witness ==
    \E t \in Threads :
       /\ last = <<"LockFinally", t>>
       /\ lock_threads[t].chat_id = ""
       /\ lock_threads[t].failed = "chat_id"
       /\ lock_threads[t].pc = "done"
       /\ lock_threads[t].driver = "quit"
       /\ ~lock_state.running
       /\ ~lock_enabled
       /\ TagCount(lock_state.logs, "group_id_required") = 1
       /\ LastEntry(lock_state) = <<"browser_closed">>

\* --------------------------------------------- cookie segments without name
\* A trimmed segment that yields no cookie: it has no '=', or it begins
\* with '='.
Nameless(seg) ==
    \/ \A i \in 1..Len(seg) : seg[i] # "="
    \/ seg # <<>> /\ seg[1] = "="

\* C30: an iteration of the cookie loop on a segment that, trimmed, has no
\* '=' or begins with '=' passes nothing to add_cookie and goes on to the
\* next segment; an iteration on any other segment passes one cookie; and
\* every cookie passed to add_cookie has a non-empty name.
C30_NamelessSegments ==
    /\ [](cookie_job.pc \notin {"idle", "begin"} =>
            /\ \A i \in 1..Len(cookie_job.added) :
                  cookie_job.added[i].name # <<>>
            /\ \A i \in 1..Len(cookie_job.jar) : cookie_job.jar[i].name # <<>>)
    /\ [][ (cookie_job.pc = "loop" /\ cookie_job.cookie_array # <<>>) =>
             LET seg == Trimmed(Head(cookie_job.cookie_array))
             IN /\ cookie_job'.pc = "loop"
                /\ cookie_job'.cookie_array = Tail(cookie_job.cookie_array)
                /\ Nameless(seg) => /\ cookie_job'.added = cookie_job.added
                                    /\ cookie_job'.jar = cookie_job.jar
                /\ ~Nameless(seg) =>
                     /\ Len(cookie_job'.added) = Len(cookie_job.added) + 1
                     /\ IsPrefix(cookie_job.added, cookie_job'.added) ]_vars

\* C30 witness: of the segments of "=;a=" the first, which begins with '=',
\* gave no cookie and the second gave the cookie named a.
C30_Witness ==
    /\ cookie_job.pc = "navigate"
    /\ cookie_job.raw = <<"=", ";", "a", "=">>
    /\ cookie_job.added = << [name |-> <<"a">>, value |-> <<>>] >>
=============================================================================
